---- MODULE Spec2Model ----
(***************************************************************************)
(* Model of Analyse_auth.py: the line parser (PATTERN, parse_line), the    *)
(* aggregation pass (analyze_log), the reporter (pretty_print_summary),    *)
(* the CSV exporter (save_csv) and main.                                   *)
(*                                                                         *)
(* A log line is a sequence of whitespace-separated tokens.  A token is a  *)
(* string; the tokens of DOMAIN Stamps are the texts that the timestamp    *)
(* prefix of PATTERN (month, day, time) matches.                           *)
(*                                                                         *)
(* lines and parsed are history variables: the lines read so far and what  *)
(* parse_line returned for each of them.                                   *)
(***************************************************************************)
EXTENDS Integers, Sequences, FiniteSets

VARIABLES pc, file_state, args, now_year, lines, parsed, res, total_lines,
          matched_lines, counts, order, first_seen, last_seen, stdout, csv

vars == <<pc, file_state, args, now_year, lines, parsed, res, total_lines,
          matched_lines, counts, order, first_seen, last_seen, stdout, csv>>

(***************************************************************************)
(* Bounds                                                                  *)
(***************************************************************************)
MaxLines == 3
MaxTop == 2
MaxYear == 2025
MaxTokens == 5

FirstYear == 2024

(***************************************************************************)
(* Python values                                                           *)
(***************************************************************************)
None == <<>>
ValueError == <<>>
NoFile == <<>>

(***************************************************************************)
(* Tokens                                                                  *)
(***************************************************************************)
IPs == {"1.2.3.4", "5.6.7.8"}
Triggers == {"Failed password", "Invalid user"}

\* groups (month, day, time) of the timestamp texts used in the model
Stamps ==
  [ s \in {"Apr 10 12:34:56", "Feb 29 10:00:00", "Feb 30 10:00:00",
           "Xyz 10 12:00:00"} |->
      CASE s = "Apr 10 12:34:56" -> [month |-> "Apr", day |-> 10, time |-> <<12, 34, 56>>]
        [] s = "Feb 29 10:00:00" -> [month |-> "Feb", day |-> 29, time |-> <<10, 0, 0>>]
        [] s = "Feb 30 10:00:00" -> [month |-> "Feb", day |-> 30, time |-> <<10, 0, 0>>]
        [] s = "Xyz 10 12:00:00" -> [month |-> "Xyz", day |-> 10, time |-> <<12, 0, 0>>] ]

(***************************************************************************)
(* PATTERN: stamp .* sshd .* (Failed password|Invalid user) .* from\s+ip   *)
(* searched as the regex engine does: leftmost start, each .* greedy with  *)
(* backtracking.                                                           *)
(***************************************************************************)
Fail == ""

RECURSIVE Try(_, _, _, _)
\* match the rest of the pattern, the next element sitting at a position in
\* lo..p, trying the rightmost position first (greedy .*)
Try(line, lo, p, stage) ==
  IF p < lo THEN Fail
  ELSE LET here ==
             CASE stage = "sshd" ->
                    IF line[p] = "sshd"
                    THEN Try(line, p + 1, Len(line), "trigger") ELSE Fail
               [] stage = "trigger" ->
                    IF line[p] \in Triggers
                    THEN Try(line, p + 1, Len(line), "from") ELSE Fail
               [] OTHER ->
                    IF line[p] = "from" /\ p + 1 <= Len(line) /\ line[p + 1] \in IPs
                    THEN line[p + 1] ELSE Fail
       IN IF here # Fail THEN here ELSE Try(line, lo, p - 1, stage)

\* faulty variant: sshd is not required between the timestamp and the phrase
MatchAt_nosshd(line, i) ==
  IF line[i] \in DOMAIN Stamps THEN Try(line, i + 1, Len(line), "trigger") ELSE Fail

MatchAt(line, i) ==
  IF line[i] \in DOMAIN Stamps THEN Try(line, i + 1, Len(line), "sshd") ELSE Fail

RECURSIVE SearchFrom(_, _)
SearchFrom(line, i) ==
  IF i > Len(line) THEN None
  ELSE IF MatchAt(line, i) # Fail
       THEN [month |-> Stamps[line[i]].month, day |-> Stamps[line[i]].day,
             time |-> Stamps[line[i]].time, ip |-> MatchAt(line, i)]
       ELSE SearchFrom(line, i + 1)

PATTERN_search(line) == SearchFrom(line, 1)

(***************************************************************************)
(* datetime                                                                *)
(***************************************************************************)
MONTHS ==
  [ m \in {"Jan", "Feb", "Mar", "Apr", "May", "Jun", "Jul", "Aug", "Sep",
           "Oct", "Nov", "Dec"} |->
      CASE m = "Jan" -> 1 [] m = "Feb" -> 2 [] m = "Mar" -> 3 [] m = "Apr" -> 4
        [] m = "May" -> 5 [] m = "Jun" -> 6 [] m = "Jul" -> 7 [] m = "Aug" -> 8
        [] m = "Sep" -> 9 [] m = "Oct" -> 10 [] m = "Nov" -> 11 [] m = "Dec" -> 12 ]

MONTHS_get(name) == IF name \in DOMAIN MONTHS THEN MONTHS[name] ELSE 0

IsLeap(y) == (y % 4 = 0 /\ y % 100 # 0) \/ y % 400 = 0

DaysInMonth(y, m) ==
  IF m = 2 THEN (IF IsLeap(y) THEN 29 ELSE 28)
  ELSE IF m \in {4, 6, 9, 11} THEN 30 ELSE 31

\* datetime(year, month, day, hour, minute, second); ValueError when out of range
datetime(y, mo, d, h, mi, s) ==
  IF /\ y \in 1..9999 /\ mo \in 1..12
     /\ d >= 1 /\ d <= DaysInMonth(y, mo)
     /\ h \in 0..23 /\ mi \in 0..59 /\ s \in 0..59
  THEN <<y, mo, d, h, mi, s>>
  ELSE ValueError

RECURSIVE LexLess(_, _, _)
LexLess(a, b, i) ==
  IF i > Len(a) THEN FALSE
  ELSE IF a[i] < b[i] THEN TRUE
  ELSE IF a[i] > b[i] THEN FALSE
  ELSE LexLess(a, b, i + 1)

\* faulty variant: the day of the month is compared before the month
DtLess_dayfirst(a, b) ==
  LexLess(<<a[1], a[3], a[2], a[4], a[5], a[6]>>,
          <<b[1], b[3], b[2], b[4], b[5], b[6]>>, 1)

\* dt1 < dt2 on two datetime values
DtLess(a, b) == LexLess(a, b, 1)

(***************************************************************************)
(* parse_line                                                              *)
(***************************************************************************)
\* faulty variant: a line whose date cannot be built is reported as no match
parse_line_drop(line, year) ==
  LET m == PATTERN_search(line) IN
  IF m = None THEN None
  ELSE LET month == MONTHS_get(m.month)
           made == datetime(year, month, m.day, m.time[1], m.time[2], m.time[3])
       IN IF made = ValueError THEN None ELSE <<m.ip, made>>

parse_line(line, year) ==
  LET m == PATTERN_search(line) IN
  IF m = None THEN None
  ELSE LET month == MONTHS_get(m.month)
           made == datetime(year, month, m.day, m.time[1], m.time[2], m.time[3])
           dt == IF made = ValueError THEN None ELSE made
       IN <<m.ip, dt>>

(***************************************************************************)
(* analyze_log: per-line updates                                           *)
(***************************************************************************)
\* faulty variant: the line counter is never advanced
count_line_skip(n) == n

\* total_lines += 1
count_line(n) == n + 1

\* matched_lines += 1
count_match(n) == n + 1

\* faulty variant: counts[ip] = 1
incr_reset(c, ip) == [k \in DOMAIN c \cup {ip} |-> IF k = ip THEN 1 ELSE c[k]]

\* counts[ip] += 1 on a Counter: a missing key counts as 0
incr(c, ip) ==
  [k \in DOMAIN c \cup {ip} |->
     IF k = ip THEN (IF ip \in DOMAIN c THEN c[ip] ELSE 0) + 1 ELSE c[k]]

\* insertion order of the Counter's keys
key_order(ord, c, ip) == IF ip \in DOMAIN c THEN ord ELSE Append(ord, ip)

\* dt < first_seen[ip] raises TypeError when first_seen[ip] is None
first_raises(fs, ip, dt) == ip \in DOMAIN fs /\ dt # None /\ fs[ip] = None

\* faulty variant: first_seen is written on the first encounter only
upd_first_once(fs, ip, dt) ==
  IF ip \notin DOMAIN fs
  THEN [k \in DOMAIN fs \cup {ip} |-> IF k = ip THEN dt ELSE fs[k]]
  ELSE fs

\* if ip not in first_seen or (dt and dt < first_seen[ip]): first_seen[ip] = dt
upd_first(fs, ip, dt) ==
  IF ip \notin DOMAIN fs \/ (dt # None /\ DtLess(dt, fs[ip]))
  THEN [k \in DOMAIN fs \cup {ip} |-> IF k = ip THEN dt ELSE fs[k]]
  ELSE fs

\* dt > last_seen[ip] raises TypeError when last_seen[ip] is None
last_raises(ls, ip, dt) == ip \in DOMAIN ls /\ dt # None /\ ls[ip] = None

\* if ip not in last_seen or (dt and dt > last_seen[ip]): last_seen[ip] = dt
upd_last(ls, ip, dt) ==
  IF ip \notin DOMAIN ls \/ (dt # None /\ DtLess(ls[ip], dt))
  THEN [k \in DOMAIN ls \cup {ip} |-> IF k = ip THEN dt ELSE ls[k]]
  ELSE ls

(***************************************************************************)
(* Counter.most_common                                                     *)
(***************************************************************************)
RECURSIVE insert_desc_unstable(_, _, _)
\* faulty variant: ip goes in front of the elements with an equal count
insert_desc_unstable(sorted, c, ip) ==
  IF sorted = <<>> THEN <<ip>>
  ELSE IF c[Head(sorted)] > c[ip]
       THEN <<Head(sorted)>> \o insert_desc_unstable(Tail(sorted), c, ip)
       ELSE <<ip>> \o sorted

RECURSIVE insert_desc(_, _, _)
\* place ip behind every element whose count is not smaller (stable)
insert_desc(sorted, c, ip) ==
  IF sorted = <<>> THEN <<ip>>
  ELSE IF c[Head(sorted)] >= c[ip]
       THEN <<Head(sorted)>> \o insert_desc(Tail(sorted), c, ip)
       ELSE <<ip>> \o sorted

RECURSIVE sorted_desc(_, _, _)
\* sorted(items, key=count, reverse=True) over the first n keys of ord
sorted_desc(c, ord, n) ==
  IF n = 0 THEN <<>>
  ELSE insert_desc(sorted_desc(c, ord, n - 1), c, ord[n])

\* most_common(): every key, descending count
most_common_all(c, ord) == sorted_desc(c, ord, Len(ord))

\* most_common(n) = heapq.nlargest(n, items, key=count)
most_common(c, ord, n) ==
  LET all == most_common_all(c, ord) IN
  IF n <= 0 THEN <<>>
  ELSE IF n >= Len(all) THEN all
  ELSE SubSeq(all, 1, n)

(***************************************************************************)
(* Output                                                                  *)
(***************************************************************************)
EmptyField == [date |-> <<>>, time |-> <<>>]

\* datetime.isoformat(): YYYY-MM-DDTHH:MM:SS
isoformat(dt) == [date |-> <<dt[1], dt[2], dt[3]>>, time |-> <<dt[4], dt[5], dt[6]>>]

\* dict.get(ip)
get(d, ip) == IF ip \in DOMAIN d THEN d[ip] ELSE None

\* faulty variant: an IP without a first_seen value gets no row
csv_rows_skip(c, ord, fs, ls) ==
  LET ranked == SelectSeq(most_common_all(c, ord), LAMBDA ip : get(fs, ip) # None) IN
  [i \in 1..Len(ranked) |->
     [ip |-> ranked[i], count |-> c[ranked[i]],
      first_seen |-> isoformat(get(fs, ranked[i])),
      last_seen |-> IF get(ls, ranked[i]) # None THEN isoformat(get(ls, ranked[i])) ELSE EmptyField]]

\* the data rows save_csv writes
csv_rows(c, ord, fs, ls) ==
  LET ranked == most_common_all(c, ord) IN
  [i \in 1..Len(ranked) |->
     [ip |-> ranked[i], count |-> c[ranked[i]],
      first_seen |-> IF get(fs, ranked[i]) # None THEN isoformat(get(fs, ranked[i])) ELSE EmptyField,
      last_seen |-> IF get(ls, ranked[i]) # None THEN isoformat(get(ls, ranked[i])) ELSE EmptyField]]

\* the " - ip | attempts | first | last" lines of pretty_print_summary
summary_rows(c, ord, fs, ls, top_n) ==
  LET ranked == most_common(c, ord, top_n) IN
  [i \in 1..Len(ranked) |->
     [kind |-> "ip", ip |-> ranked[i], count |-> c[ranked[i]],
      first |-> get(fs, ranked[i]), last |-> get(ls, ranked[i])]]

\* truth value of args.out
truthy(out) == out # None /\ out[1] # ""

\* faulty variant: after the message for a missing file main goes on
after_open_fallthrough(state) ==
  CASE state = "ok" -> "reading"
    [] state = "missing" -> "summary"
    [] OTHER -> "crashed"

\* where main goes once analyze_log has tried to open the file
after_open(state) ==
  CASE state = "ok" -> "reading"
    [] state = "missing" -> "done"
    [] OTHER -> "crashed"

(***************************************************************************)
(* Inputs                                                                  *)
(***************************************************************************)
MkLine(stamp, ip) == <<stamp, "sshd", "Failed password", "from", ip>>

LogLines ==
  {MkLine(s, ip) : s \in {"Apr 10 12:34:56", "Feb 29 10:00:00", "Feb 30 10:00:00"},
                   ip \in IPs}
  \cup {<<>>, <<"Apr 10 12:34:56", "sshd", "session opened">>}

OutArgs == {None, <<"">>, <<"result.csv">>}

EmptyMap == [k \in {} |-> 0]

(***************************************************************************)
(* main                                                                    *)
(***************************************************************************)
Init ==
  /\ pc = "start"
  /\ file_state \in {"ok", "missing", "denied"}
  /\ args \in [top : 0..MaxTop, out : OutArgs]
  /\ now_year = FirstYear
  /\ lines = <<>>
  /\ parsed = <<>>
  /\ res = None
  /\ total_lines = 0
  /\ matched_lines = 0
  /\ counts = EmptyMap
  /\ order = <<>>
  /\ first_seen = EmptyMap
  /\ last_seen = EmptyMap
  /\ stdout = <<>>
  /\ csv = NoFile

\* main calls analyze_log, which opens the file
OpenLog ==
  /\ pc = "start"
  /\ pc' = after_open(file_state)
  /\ stdout' = IF file_state = "missing"
               THEN Append(stdout, [kind |-> "notfound"]) ELSE stdout
  /\ UNCHANGED <<file_state, args, now_year, lines, parsed, res, total_lines,
                 matched_lines, counts, order, first_seen, last_seen, csv>>

\* one iteration of "for line in f"
ReadLine(line) ==
  /\ pc = "reading"
  /\ Len(lines) < MaxLines
  /\ lines' = Append(lines, line)
  /\ total_lines' = count_line(total_lines)
  /\ res' = parse_line(line, now_year)
  /\ parsed' = Append(parsed, res')
  /\ IF res' = None
     THEN UNCHANGED <<pc, matched_lines, counts, order, first_seen, last_seen>>
     ELSE LET ip == res'[1]
              dt == res'[2]
          IN /\ matched_lines' = count_match(matched_lines)
             /\ counts' = incr(counts, ip)
             /\ order' = key_order(order, counts, ip)
             /\ IF first_raises(first_seen, ip, dt)
                THEN /\ pc' = "crashed"
                     /\ UNCHANGED <<first_seen, last_seen>>
                ELSE /\ first_seen' = upd_first(first_seen, ip, dt)
                     /\ IF last_raises(last_seen, ip, dt)
                        THEN pc' = "crashed" /\ UNCHANGED last_seen
                        ELSE pc' = pc /\ last_seen' = upd_last(last_seen, ip, dt)
  /\ UNCHANGED <<file_state, args, now_year, stdout, csv>>

\* end of file: analyze_log returns its result to main
EndOfFile ==
  /\ pc = "reading"
  /\ pc' = "summary"
  /\ UNCHANGED <<file_state, args, now_year, lines, parsed, res, total_lines,
                 matched_lines, counts, order, first_seen, last_seen, stdout, csv>>

PrettyPrintSummary ==
  /\ pc = "summary"
  /\ stdout' = stdout
               \o <<[kind |-> "header"],
                    [kind |-> "total", n |-> total_lines],
                    [kind |-> "matched", n |-> matched_lines],
                    [kind |-> "top"]>>
               \o summary_rows(counts, order, first_seen, last_seen, args.top)
               \o <<[kind |-> "footer"]>>
  /\ pc' = "export"
  /\ UNCHANGED <<file_state, args, now_year, lines, parsed, res, total_lines,
                 matched_lines, counts, order, first_seen, last_seen, csv>>

SaveCsv ==
  /\ pc = "export"
  /\ truthy(args.out)
  /\ csv' = <<[ip |-> "ip", count |-> "count", first_seen |-> "first_seen",
               last_seen |-> "last_seen"]>>
            \o csv_rows(counts, order, first_seen, last_seen)
  /\ stdout' = Append(stdout, [kind |-> "saved"])
  /\ pc' = "done"
  /\ UNCHANGED <<file_state, args, now_year, lines, parsed, res, total_lines,
                 matched_lines, counts, order, first_seen, last_seen>>

NoCsv ==
  /\ pc = "export"
  /\ ~truthy(args.out)
  /\ pc' = "done"
  /\ UNCHANGED <<file_state, args, now_year, lines, parsed, res, total_lines,
                 matched_lines, counts, order, first_seen, last_seen, stdout, csv>>

\* the calendar year datetime.now() reports moves on
NewYear ==
  /\ pc = "reading"
  /\ now_year < MaxYear
  /\ now_year' = now_year + 1
  /\ UNCHANGED <<pc, file_state, args, lines, parsed, res, total_lines,
                 matched_lines, counts, order, first_seen, last_seen, stdout, csv>>

Next ==
  \/ OpenLog
  \/ \E line \in LogLines : ReadLine(line)
  \/ EndOfFile
  \/ PrettyPrintSummary
  \/ SaveCsv
  \/ NoCsv
  \/ NewYear

Spec == Init /\ [][Next]_vars

(***************************************************************************)
(* parse_line on its own: every line of at most MaxTokens tokens           *)
(***************************************************************************)
Tokens == {"Apr 10 12:34:56", "Xyz 10 12:00:00", "sshd", "Failed password",
           "Invalid user", "from", "1.2.3.4", "host"}

TokenLines == UNION {[1..n -> Tokens] : n \in 0..MaxTokens}

Pending == <<"pending">>

InitParse ==
  /\ pc = "parse"
  /\ file_state = "ok"
  /\ args = [top |-> 0, out |-> None]
  /\ now_year \in FirstYear..MaxYear
  /\ \E line \in TokenLines : lines = <<line>>
  /\ parsed = <<>>
  /\ res = Pending
  /\ total_lines = 0
  /\ matched_lines = 0
  /\ counts = EmptyMap
  /\ order = <<>>
  /\ first_seen = EmptyMap
  /\ last_seen = EmptyMap
  /\ stdout = <<>>
  /\ csv = NoFile

ParseLine ==
  /\ pc = "parse"
  /\ res' = parse_line(lines[1], now_year)
  /\ parsed' = <<res'>>
  /\ pc' = "parsed"
  /\ UNCHANGED <<file_state, args, now_year, lines, total_lines, matched_lines,
                 counts, order, first_seen, last_seen, stdout, csv>>

NextParse == ParseLine

SpecParse == InitParse /\ [][NextParse]_vars

(***************************************************************************)
(* Properties.  The operators below restate the expected results from the  *)
(* history of the run, without the update operators of the model.          *)
(***************************************************************************)
\* a is strictly earlier than b
Earlier(a, b) == \E i \in 1..6 : a[i] < b[i] /\ \A j \in 1..(i - 1) : a[j] = b[j]

MatchedIdx == {i \in 1..Len(parsed) : parsed[i] # None}
IdxOf(ip) == {i \in MatchedIdx : parsed[i][1] = ip}
SeenIPs == {parsed[i][1] : i \in MatchedIdx}
TimesOf(ip) == {parsed[i][2] : i \in IdxOf(ip)}
FirstIdx(ip) == CHOOSE i \in IdxOf(ip) : \A j \in IdxOf(ip) : i <= j

\* y stands before x in the ranking: more attempts, or as many and met first
Ranks(y, x) ==
  \/ Cardinality(IdxOf(y)) > Cardinality(IdxOf(x))
  \/ Cardinality(IdxOf(y)) = Cardinality(IdxOf(x)) /\ FirstIdx(y) < FirstIdx(x)

\* the IPs of the summary, in the order printed
Listed ==
  LET rows == SelectSeq(stdout, LAMBDA r : r.kind = "ip") IN
  [i \in 1..Len(rows) |-> rows[i].ip]

Returned == pc \in {"summary", "export", "done"} /\ file_state = "ok"

MonthNames == <<"Jan", "Feb", "Mar", "Apr", "May", "Jun", "Jul", "Aug", "Sep",
                "Oct", "Nov", "Dec">>

CalendarDays(y) ==
  <<31, IF (y % 4 = 0 /\ y % 100 # 0) \/ y % 400 = 0 THEN 29 ELSE 28,
    31, 30, 31, 30, 31, 31, 30, 31, 30, 31>>

\* the groups g of a match name a date and time of year y
IsCalendarDate(y, g) ==
  \E k \in 1..12 :
     /\ MonthNames[k] = g.month
     /\ g.day \in 1..CalendarDays(y)[k]
     /\ g.time[1] \in 0..23 /\ g.time[2] \in 0..59 /\ g.time[3] \in 0..59

\* this step reads one more line
ReadsLine == pc = "reading" /\ Len(lines') = Len(lines) + 1
LineRead == lines'[Len(lines')]

\* C1: a matched line with a valid timestamp for an IP whose stored
\* first_seen (last_seen) is absent replaces it, and processing continues.
C1_AbsentIsReplaced ==
  [][(/\ ReadsLine
      /\ res' # None
      /\ res'[2] # None
      /\ res'[1] \in DOMAIN first_seen
      /\ (first_seen[res'[1]] = None \/ last_seen[res'[1]] = None))
     => (/\ pc' = "reading"
         /\ first_seen[res'[1]] = None => first_seen'[res'[1]] = res'[2]
         /\ last_seen[res'[1]] = None => last_seen'[res'[1]] = res'[2])]_vars

\* C2: at every point of the pass and in the result, an IP whose first_seen
\* and last_seen are both present has first_seen <= last_seen.
C2_FirstNotAfterLast ==
  \A ip \in DOMAIN first_seen \cap DOMAIN last_seen :
     (first_seen[ip] # None /\ last_seen[ip] # None)
       => ~Earlier(last_seen[ip], first_seen[ip])

C2_Witness ==
  /\ pc = "done"
  /\ \E ip \in DOMAIN first_seen \cap DOMAIN last_seen :
        /\ first_seen[ip] # None /\ last_seen[ip] # None
        /\ Earlier(first_seen[ip], last_seen[ip])

\* C3: total_lines is the number of lines read, empty and non-matching lines
\* included, and matched_lines <= total_lines after every line.
C3_LineCounts == total_lines = Len(lines) /\ matched_lines <= total_lines

C3_Witness ==
  /\ Returned
  /\ total_lines = 3
  /\ matched_lines = 1
  /\ \E i \in 1..Len(lines) : lines[i] = <<>>
  /\ \E i \in 1..Len(lines) : lines[i] # <<>> /\ parsed[i] = None

\* C4: an IP is in the result exactly when a matched line carries it, and its
\* count is the number of those lines, hence at least 1.
C4_CountPerIp ==
  /\ DOMAIN counts = SeenIPs
  /\ \A ip \in DOMAIN counts :
        counts[ip] = Cardinality(IdxOf(ip)) /\ counts[ip] >= 1

C4_Witness ==
  /\ Returned
  /\ \E a \in DOMAIN counts, b \in DOMAIN counts :
        a # b /\ counts[a] = 2 /\ counts[b] = 1

\* C5 (step): a line that matches the pattern but names no calendar date is
\* parsed to (ip, absent), counted in matched_lines and in the IP's count,
\* raises nothing and brings no timestamp.
C5Step ==
  (ReadsLine /\ PATTERN_search(LineRead) # None
             /\ ~IsCalendarDate(now_year, PATTERN_search(LineRead)))
  => LET ip == PATTERN_search(LineRead).ip IN
     /\ res' = <<ip, None>>
     /\ pc' = "reading"
     /\ matched_lines' = matched_lines + 1
     /\ counts'[ip] = (IF ip \in DOMAIN counts THEN counts[ip] ELSE 0) + 1
     /\ first_seen'[ip] = get(first_seen, ip)
     /\ last_seen'[ip] = get(last_seen, ip)

\* C5 (state): an IP all of whose matched lines carry no timestamp has
\* first_seen and last_seen absent (it holds initially, no line being read).
C5Absent ==
  \A ip \in SeenIPs :
     TimesOf(ip) = {None}
       => get(first_seen, ip) = None /\ get(last_seen, ip) = None

\* C5: a matched line with an invalid calendar date is not an error: it is
\* counted, and it contributes no timestamp: every step satisfies C5Step and
\* leads to a state satisfying C5Absent.
C5_InvalidDateCounted == [][C5Step /\ C5Absent']_vars

C5_Witness ==
  /\ pc = "done"
  /\ lines = <<MkLine("Feb 30 10:00:00", "1.2.3.4")>>
  /\ parsed = <<<<"1.2.3.4", None>>>>
  /\ matched_lines = 1
  /\ counts["1.2.3.4"] = 1
  /\ first_seen["1.2.3.4"] = None /\ last_seen["1.2.3.4"] = None

\* C6: when the input file does not exist main prints the file-not-found
\* message and returns: nothing is analysed, no summary is printed and no
\* CSV is written, whatever --out is.
C6_MissingFile ==
  (file_state = "missing" /\ pc # "start")
    => /\ pc = "done"
       /\ Len(stdout) = 1 /\ stdout[1].kind = "notfound"
       /\ csv = NoFile
       /\ total_lines = 0 /\ lines = <<>>

C6_Witness == file_state = "missing" /\ pc = "done" /\ truthy(args.out)

\* C7: the summary lists the first min(N, number of distinct IPs) IPs of the
\* ranking by descending count, ties in first-encounter order.
C7_TopN ==
  (Returned /\ pc # "summary")
    => /\ Len(Listed) = (IF args.top < Cardinality(SeenIPs)
                         THEN args.top ELSE Cardinality(SeenIPs))
       /\ \A i \in 1..Len(Listed) : Listed[i] \in SeenIPs
       /\ \A i \in 1..Len(Listed), j \in 1..Len(Listed) :
             i < j => Ranks(Listed[i], Listed[j])
       /\ \A i \in 1..Len(Listed) : \A y \in SeenIPs :
             Ranks(y, Listed[i]) => \E j \in 1..(i - 1) : Listed[j] = y

C7_Witness ==
  /\ pc = "done"
  /\ args.top = 1
  /\ Cardinality(SeenIPs) = 2
  /\ \A a \in SeenIPs : Cardinality(IdxOf(a)) = 1
  /\ Len(Listed) = 1
  /\ Listed[1] = parsed[1][1]

RECURSIVE SumCounts(_)
SumCounts(rows) == IF rows = <<>> THEN 0 ELSE Head(rows).count + SumCounts(Tail(rows))

\* C8: the CSV has one data row per distinct IP, in the ranking the summary
\* uses, and the counts of its rows sum to matched_lines.
C8_CsvRows ==
  csv # NoFile
    => LET rows == Tail(csv) IN
       /\ Len(rows) = Cardinality(SeenIPs)
       /\ {rows[i].ip : i \in 1..Len(rows)} = SeenIPs
       /\ \A i \in 1..Len(rows), j \in 1..Len(rows) :
             i < j => Ranks(rows[i].ip, rows[j].ip)
       /\ \A i \in 1..Len(Listed) : Listed[i] = rows[i].ip
       /\ SumCounts(rows) = matched_lines

C8_Witness ==
  /\ csv # NoFile
  /\ Len(csv) = 3
  /\ matched_lines = 3
  /\ \E ip \in SeenIPs : get(first_seen, ip) = None

HasSshd(line) == \E i \in 1..Len(line) : line[i] = "sshd"
HasTrigger(line) == \E i \in 1..Len(line) : line[i] \in Triggers
HasFromIp(line) == \E i \in 1..(Len(line) - 1) : line[i] = "from" /\ line[i + 1] \in IPs

\* C9 as stated: no match exactly when the line lacks sshd, lacks both
\* trigger phrases, or lacks a dotted-quad IP preceded by from.
C9_NoMatchIffLacks ==
  pc = "parsed"
    => (res = None <=> (~HasSshd(lines[1]) \/ ~HasTrigger(lines[1]) \/ ~HasFromIp(lines[1])))

\* the line holds, in this order, a timestamp, sshd, a trigger phrase and an
\* IP preceded by from
InOrder(line) ==
  \E i \in 1..Len(line), j \in 1..Len(line), k \in 1..Len(line), l \in 1..(Len(line) - 1) :
     /\ i < j /\ j < k /\ k < l
     /\ line[i] \in DOMAIN Stamps
     /\ line[j] = "sshd"
     /\ line[k] \in Triggers
     /\ line[l] = "from" /\ line[l + 1] \in IPs

\* C9 amended: no match exactly when the line does not hold, in this order,
\* a month-day-time timestamp, sshd, a trigger phrase and an IP preceded by
\* from.
C9_NoMatchIffNotInOrder ==
  pc = "parsed" => (res = None <=> ~InOrder(lines[1]))

C9_Witness ==
  /\ pc = "parsed"
  /\ res = None
  /\ HasSshd(lines[1]) /\ HasTrigger(lines[1]) /\ HasFromIp(lines[1])

\* C10: for an IP all of whose matched lines carry a timestamp, first_seen is
\* the earliest and last_seen the latest of them, whatever the line order.
C10_MinMax ==
  \A ip \in SeenIPs :
     None \notin TimesOf(ip)
       => /\ first_seen[ip] \in TimesOf(ip)
          /\ \A t \in TimesOf(ip) : ~Earlier(t, first_seen[ip])
          /\ last_seen[ip] \in TimesOf(ip)
          /\ \A t \in TimesOf(ip) : ~Earlier(last_seen[ip], t)

C10_Witness ==
  /\ Returned
  /\ \E ip \in SeenIPs :
        /\ None \notin TimesOf(ip)
        /\ \E i \in IdxOf(ip), j \in IdxOf(ip) :
              /\ i < j
              /\ Earlier(parsed[j][2], parsed[i][2])
              /\ first_seen[ip] = parsed[j][2]
              /\ last_seen[ip] = parsed[i][2]

====
